---- MODULE Spec2Model ----
(***************************************************************************)
(* The attachment tree / flat index of the compose menu                    *)
(* (compose/compose.c).  Bodies live in an arena addressed by small        *)
(* integers; 0 is the NULL pointer.  Array positions are 0-based as in     *)
(* the C code, so entry i of actx->idx is idx[i + 1].                      *)
(***************************************************************************)
EXTENDS Integers, Sequences, FiniteSets, TLC

MaxNodes == 4

MaxTagged == 3

MaxSmallNodes == 3

MaxSmallTagged == 2

MaxFlagNodes == 2

MaxDepth == 1
MaxTreeNodes == 3

MaxTime == 1

MaxCount == 2

NULL == 0

Nodes == 1..MaxNodes

VARIABLES bodies, idx, e_body, menu, used, last, out

vars == <<bodies, idx, e_body, menu, used, last, out>>

----------------------------------------------------------------------------
(* struct Body, as far as the compose menu reads and writes it *)

(* struct Content: what mutt_get_content_info() counts in a file *)
Counts(lo, hi, as, cr) == [lobin |-> lo, hibin |-> hi, ascii |-> as, crlf |-> cr]

(* b->content == NULL *)
NoInfo == [valid |-> FALSE, lobin |-> 0, hibin |-> 0, ascii |-> 0, crlf |-> 0]

Info(c) == [valid |-> TRUE, lobin |-> c.lobin, hibin |-> c.hibin,
            ascii |-> c.ascii, crlf |-> c.crlf]

(* A char * that is NULL; a string is kept as the sequence of its pieces. *)
NoText == <<>>

(* The file named by b->filename is kept with the body: whether stat()    *)
(* finds it (exists), its st_mtime (mtime) and what it holds (file).      *)
(* stamp, encoding and info are b->stamp, b->encoding and b->content.     *)
NoBody == [type |-> "none", subtype |-> "", next |-> NULL, parts |-> NULL,
           tagged |-> FALSE, unlink |-> FALSE, email |-> FALSE,
           language |-> FALSE, content |-> "none",
           exists |-> TRUE, mtime |-> 0, file |-> Counts(0, 0, 0, 0),
           stamp |-> 0, encoding |-> "7bit", info |-> NoInfo,
           description |-> NoText, filename |-> NoText]

(* What a released body still shows to a read through a stale pointer.    *)
(* mutt_body_free() removes the file of a body whose unlink flag is set,  *)
(* so exists tells afterwards whether the file is still there.            *)
FreedBody(b) ==
  [NoBody EXCEPT !.type = "freed", !.tagged = b.tagged, !.language = b.language,
                 !.exists = b.exists /\ ~b.unlink]

NewBody == [NoBody EXCEPT !.type = "other"]

(* The name every attached file goes by *)
FileName == <<"file">>

TextBody(nx) ==
  [NoBody EXCEPT !.type = "text", !.subtype = "plain", !.next = nx,
                 !.filename = FileName]

MultiBody(sub, p, nx) ==
  [NoBody EXCEPT !.type = "multipart", !.subtype = sub, !.parts = p, !.next = nx]

FileAttach == TextBody(NULL)

(* mutt_make_message_attach(): body->email is set and body->parts is the  *)
(* parsed message, shared with body->email->body.  Nothing in the compose *)
(* menu follows that pointer, so the message is kept as the content field *)
(* of its attachment: "held" while allocated, "released" once freed.      *)
MessageAttach ==
  [NoBody EXCEPT !.type = "message", !.subtype = "rfc822", !.unlink = TRUE,
                 !.email = TRUE, !.content = "held", !.filename = FileName]

Arena(f, n) == [b \in Nodes |-> IF b <= n THEN f[b] ELSE NoBody]

(* struct AttachPtr *)
AttachPtr(b, lvl, ptype, own) ==
  [body |-> b, level |-> lvl, num |-> 0, unowned |-> own, parent_type |-> ptype]

(* mutt_is_multipart_encrypted() *)
IsEncrypted(b) == b.type = "multipart" /\ b.subtype = "encrypted"

Min(S) == CHOOSE x \in S : \A y \in S : x <= y

(* Steps after which a walk along next links has met some body twice *)
WalkFuel == MaxNodes * (MaxNodes + 1)

(* The session state the handlers work on, as one record *)
(* What the last handler showed to the user and asked of the file system: *)
(* the size it displayed, the attachment number of its error message (0:  *)
(* none), and the array positions (from 1) whose files were stat()ed, that *)
(* were asked about, and whose encoding was updated.                      *)
NoOut == [size |-> 0, err |-> 0, examined |-> {}, prompted |-> {}, updated |-> {}]

St == [bodies |-> bodies, idx |-> idx, e_body |-> e_body, menu |-> menu,
       used |-> used]

----------------------------------------------------------------------------
(* Faulty variant of the flattening: an encrypted multipart is expanded   *)
(* like any other.  C20 must tell it from the code.                       *)
RECURSIVE mutt_gen_compose_attach_list_expands(_, _, _, _, _)
mutt_gen_compose_attach_list_expands(bs, m, parent_type, level, fuel) ==
  IF m = NULL \/ fuel = 0 THEN <<>>
  ELSE LET here ==
             IF bs[m].type = "multipart" /\ bs[m].parts # NULL
             THEN mutt_gen_compose_attach_list_expands(bs, bs[m].parts, bs[m].type,
                                                       level, fuel - 1)
             ELSE <<AttachPtr(m, level, parent_type, FALSE)>>
       IN here \o mutt_gen_compose_attach_list_expands(bs, bs[m].next, parent_type,
                                                       level, fuel - 1)

(* Faulty variant of the flattening: the parts of an expanded multipart   *)
(* are listed one level below it.  C33 must tell it from the code.        *)
RECURSIVE mutt_gen_compose_attach_list_nested(_, _, _, _, _)
mutt_gen_compose_attach_list_nested(bs, m, parent_type, level, fuel) ==
  IF m = NULL \/ fuel = 0 THEN <<>>
  ELSE LET here ==
             IF bs[m].type = "multipart" /\ bs[m].parts # NULL /\ ~IsEncrypted(bs[m])
             THEN mutt_gen_compose_attach_list_nested(bs, bs[m].parts, bs[m].type,
                                                      level + 1, fuel - 1)
             ELSE <<AttachPtr(m, level, parent_type, FALSE)>>
       IN here \o mutt_gen_compose_attach_list_nested(bs, bs[m].next, parent_type,
                                                      level, fuel - 1)

(* mutt_gen_compose_attach_list(): flatten the tree below m.  A multipart  *)
(* with parts that is not encrypted gets no entry of its own and its parts *)
(* are listed at the SAME level.                                           *)
RECURSIVE mutt_gen_compose_attach_list(_, _, _, _, _)
mutt_gen_compose_attach_list(bs, m, parent_type, level, fuel) ==
  IF m = NULL \/ fuel = 0 THEN <<>>
  ELSE LET here ==
             IF bs[m].type = "multipart" /\ bs[m].parts # NULL /\ ~IsEncrypted(bs[m])
             THEN mutt_gen_compose_attach_list(bs, bs[m].parts, bs[m].type, level, fuel - 1)
             ELSE <<AttachPtr(m, level, parent_type, FALSE)>>
       IN here \o mutt_gen_compose_attach_list(bs, bs[m].next, parent_type, level, fuel - 1)

(* mutt_update_tree(): every visible entry gets its position as number *)
mutt_update_tree(ix) == [i \in 1..Len(ix) |-> [ix[i] EXCEPT !.num = i - 1]]

(* Faulty variant of mutt_update_compose_menu: a selection past the end   *)
(* of the array is left where it is.  C37 must tell it from the code.     *)
mutt_update_compose_menu_unclamped(s) ==
  [s EXCEPT !.idx = mutt_update_tree(s.idx)]

(* mutt_update_compose_menu(actx, menu, false) *)
mutt_update_compose_menu(s) ==
  LET n == Len(s.idx)
      c == IF n > 0
           THEN (IF s.menu.current >= n THEN n - 1 ELSE s.menu.current)
           ELSE 0
  IN [s EXCEPT !.idx = mutt_update_tree(s.idx), !.menu.current = c]

(* mutt_attach_init(): clear the tagged flag of every listed body *)
mutt_attach_init(bs, ix) ==
  [b \in Nodes |-> IF \E i \in 1..Len(ix) : ix[i].body = b
                   THEN [bs[b] EXCEPT !.tagged = FALSE] ELSE bs[b]]

(* mutt_body_free(): releases b, the list that follows it along next and  *)
(* what each released body has as parts; for a message attachment parts   *)
(* is the attached message.                                               *)
RECURSIVE mutt_body_free(_, _, _)
mutt_body_free(bs, b, fuel) ==
  IF b = NULL \/ fuel = 0 \/ bs[b].type \in {"none", "freed"} THEN bs
  ELSE LET b1 == mutt_body_free(bs, bs[b].parts, fuel - 1)
           b2 == mutt_body_free(b1, bs[b].next, fuel - 1)
       IN [b2 EXCEPT ![b] =
             [FreedBody(bs[b]) EXCEPT
                !.content = IF bs[b].content = "held" THEN "released" ELSE "none"]]

(* body->next = NULL; if (!body->email) body->parts = NULL; *)
Unchain(bs, b) ==
  [bs EXCEPT ![b].next = NULL, ![b].parts = IF bs[b].email THEN @ ELSE NULL]

(* Faulty variant of update_idx: the new entry is always listed at depth  *)
(* 0.  C14 must tell it from the code.                                    *)
update_idx_top_level(s, ap) ==
  LET n == Len(s.idx)
      bs == IF n > 0 THEN [s.bodies EXCEPT ![s.idx[n].body].next = ap.body]
            ELSE s.bodies
      s1 == mutt_update_compose_menu(
              [s EXCEPT !.bodies = bs,
                        !.idx = Append(s.idx, [ap EXCEPT !.level = 0])])
  IN [s1 EXCEPT !.menu.current = Len(s1.idx) - 1]

(* update_idx(): append ap at the end of the list *)
update_idx(s, ap) ==
  LET n == Len(s.idx)
      lvl == IF n > 0 THEN s.idx[n].level ELSE 0
      bs == IF n > 0 THEN [s.bodies EXCEPT ![s.idx[n].body].next = ap.body]
            ELSE s.bodies
      s1 == mutt_update_compose_menu(
              [s EXCEPT !.bodies = bs,
                        !.idx = Append(s.idx, [ap EXCEPT !.level = lvl])])
  IN [s1 EXCEPT !.menu.current = Len(s1.idx) - 1]

(* Faulty variant of insert_idx: the neighbours are linked whatever their *)
(* depth.  C15 must tell it from the code.                                *)
insert_idx_any_level(s, ap, aidx) ==
  LET n == Len(s.idx)
      b1 == IF aidx > 0
            THEN [s.bodies EXCEPT ![s.idx[aidx].body].next = ap.body]
            ELSE s.bodies
      b2 == IF aidx < n
            THEN [b1 EXCEPT ![ap.body].next = s.idx[aidx + 1].body]
            ELSE b1
      ix == SubSeq(s.idx, 1, aidx) \o <<ap>> \o SubSeq(s.idx, aidx + 1, n)
      s1 == mutt_update_compose_menu([s EXCEPT !.bodies = b2, !.idx = ix])
  IN [s1 EXCEPT !.menu.current = aidx]

(* Faulty variant of insert_idx: the entries are not numbered anew after  *)
(* the insertion.  C31 must tell it from the code.                        *)
insert_idx_keeps_numbers(s, ap, aidx) ==
  LET n == Len(s.idx)
      b1 == IF aidx > 0 /\ ap.level = s.idx[aidx].level
            THEN [s.bodies EXCEPT ![s.idx[aidx].body].next = ap.body]
            ELSE s.bodies
      b2 == IF aidx < n /\ ap.level = s.idx[aidx + 1].level
            THEN [b1 EXCEPT ![ap.body].next = s.idx[aidx + 1].body]
            ELSE b1
      ix == SubSeq(s.idx, 1, aidx) \o <<ap>> \o SubSeq(s.idx, aidx + 1, n)
  IN [s EXCEPT !.bodies = b2, !.idx = ix, !.menu.current = aidx]

(* insert_idx(): insert ap at position aidx (0-based), linking by level *)
insert_idx(s, ap, aidx) ==
  LET n == Len(s.idx)
      b1 == IF aidx > 0 /\ ap.level = s.idx[aidx].level
            THEN [s.bodies EXCEPT ![s.idx[aidx].body].next = ap.body]
            ELSE s.bodies
      b2 == IF aidx < n /\ ap.level = s.idx[aidx + 1].level
            THEN [b1 EXCEPT ![ap.body].next = s.idx[aidx + 1].body]
            ELSE b1
      ix == SubSeq(s.idx, 1, aidx) \o <<ap>> \o SubSeq(s.idx, aidx + 1, n)
      s1 == mutt_update_compose_menu([s EXCEPT !.bodies = b2, !.idx = ix])
  IN [s1 EXCEPT !.menu.current = aidx]

(* Faulty variant of delete_attachment: the rejection of the only        *)
(* attachment returns without clearing the tagged flag.  C6 must tell it  *)
(* from the code.                                                         *)
delete_attachment_keeps_tag(s, x) ==
  LET rindex == x
      n == Len(s.idx)
      target == s.idx[rindex + 1].body
  IN IF rindex = 0 /\ n = 1
     THEN [rc |-> -1, s |-> s]
     ELSE LET preds == {y \in 1..n : s.bodies[s.idx[y].body].next = target}
              b1 == IF preds = {} THEN s.bodies
                    ELSE [s.bodies EXCEPT ![s.idx[Min(preds)].body].next =
                                             s.bodies[target].next]
              b2 == mutt_body_free(Unchain(b1, target), target, WalkFuel)
              ix == SubSeq(s.idx, 1, rindex) \o SubSeq(s.idx, rindex + 2, n)
          IN [rc |-> 0, s |-> [s EXCEPT !.bodies = b2, !.idx = ix]]

(* Faulty variant of delete_attachment: body->parts is left in place for  *)
(* every body, so that the release takes the children too.  C19 must tell *)
(* it from the code.                                                      *)
delete_attachment_keeps_parts(s, x) ==
  LET rindex == x
      n == Len(s.idx)
      target == s.idx[rindex + 1].body
  IN IF rindex = 0 /\ n = 1
     THEN [rc |-> -1, s |-> [s EXCEPT !.bodies[target].tagged = FALSE]]
     ELSE LET preds == {y \in 1..n : s.bodies[s.idx[y].body].next = target}
              b1 == IF preds = {} THEN s.bodies
                    ELSE [s.bodies EXCEPT ![s.idx[Min(preds)].body].next =
                                             s.bodies[target].next]
              b2 == mutt_body_free([b1 EXCEPT ![target].next = NULL], target, WalkFuel)
              ix == SubSeq(s.idx, 1, rindex) \o SubSeq(s.idx, rindex + 2, n)
          IN [rc |-> 0, s |-> [s EXCEPT !.bodies = b2, !.idx = ix]]

(* delete_attachment(actx, x) *)
delete_attachment(s, x) ==
  LET rindex == x
      n == Len(s.idx)
      target == s.idx[rindex + 1].body
  IN IF rindex = 0 /\ n = 1
     THEN [rc |-> -1, s |-> [s EXCEPT !.bodies[target].tagged = FALSE]]
     ELSE LET preds == {y \in 1..n : s.bodies[s.idx[y].body].next = target}
              b1 == IF preds = {} THEN s.bodies
                    ELSE [s.bodies EXCEPT ![s.idx[Min(preds)].body].next =
                                             s.bodies[target].next]
              b2 == mutt_body_free(Unchain(b1, target), target, WalkFuel)
              ix == SubSeq(s.idx, 1, rindex) \o SubSeq(s.idx, rindex + 2, n)
          IN [rc |-> 0, s |-> [s EXCEPT !.bodies = b2, !.idx = ix]]

(* Faulty variant of OP_DELETE: the unlink flag is cleared whether or not *)
(* the entry is user-owned.  C5 must tell it from the code.               *)
op_delete_any_owner(s) ==
  IF Len(s.idx) = 0 THEN [rc |-> "none", s |-> s]
  ELSE LET cur == s.idx[s.menu.current + 1]
           s1 == [s EXCEPT !.bodies[cur.body].unlink = FALSE]
           d == delete_attachment(s1, s.menu.current)
       IN IF d.rc = -1 THEN [rc |-> "rejected", s |-> d.s]
          ELSE LET s2 == mutt_update_compose_menu(d.s)
               IN [rc |-> "ok",
                   s |-> IF s2.menu.current = 0
                         THEN [s2 EXCEPT !.e_body = s2.idx[1].body] ELSE s2]

(* Faulty variant of OP_DELETE: e->body is not set after the first entry  *)
(* was removed.  C18 must tell it from the code.                          *)
op_delete_keeps_root(s) ==
  IF Len(s.idx) = 0 THEN [rc |-> "none", s |-> s]
  ELSE LET cur == s.idx[s.menu.current + 1]
           s1 == IF cur.unowned THEN [s EXCEPT !.bodies[cur.body].unlink = FALSE]
                 ELSE s
           d == delete_attachment(s1, s.menu.current)
       IN IF d.rc = -1 THEN [rc |-> "rejected", s |-> d.s]
          ELSE [rc |-> "ok", s |-> mutt_update_compose_menu(d.s)]

(* case OP_DELETE *)
op_delete(s) ==
  IF Len(s.idx) = 0 THEN [rc |-> "none", s |-> s]
  ELSE LET cur == s.idx[s.menu.current + 1]
           s1 == IF cur.unowned THEN [s EXCEPT !.bodies[cur.body].unlink = FALSE]
                 ELSE s
           d == delete_attachment(s1, s.menu.current)
       IN IF d.rc = -1 THEN [rc |-> "rejected", s |-> d.s]
          ELSE LET s2 == mutt_update_compose_menu(d.s)
               IN [rc |-> "ok",
                   s |-> IF s2.menu.current = 0
                         THEN [s2 EXCEPT !.e_body = s2.idx[1].body] ELSE s2]

(* The walk "for (part = msg; part; part = part->next)" of               *)
(* compose_attach_swap(): the first part whose next is target, NULL when  *)
(* the walk ends without one, "hang" when the chain is cyclic.  A walk    *)
(* that steps onto a released body reads freed memory: the build either   *)
(* traps there ("uaf") or reads what the body held when it was released;  *)
(* trap says which.                                                       *)
RECURSIVE FindPrev(_, _, _, _, _)
FindPrev(bs, part, target, fuel, trap) ==
  IF part = NULL THEN [ub |-> "", part |-> NULL]
  ELSE IF trap /\ bs[part].type = "freed" THEN [ub |-> "uaf", part |-> NULL]
  ELSE IF bs[part].next = target THEN [ub |-> "", part |-> part]
  ELSE IF fuel = 0 THEN [ub |-> "hang", part |-> NULL]
  ELSE FindPrev(bs, bs[part].next, target, fuel - 1, trap)

(* compose_attach_swap(msg, idx, first) *)
compose_attach_swap(s, first, trap) ==
  LET A == s.idx[first + 1]
      B == s.idx[first + 2]
      w == FindPrev(s.bodies, s.e_body, A.body, WalkFuel, trap)
      b1 == IF w.part # NULL
            THEN LET x1 == [s.bodies EXCEPT ![A.body].next = s.bodies[B.body].next]
                     x2 == [x1 EXCEPT ![B.body].next = A.body]
                 IN [x2 EXCEPT ![w.part].next = B.body]
            ELSE s.bodies
      ix == [s.idx EXCEPT ![first + 1] = [B EXCEPT !.num = A.num],
                          ![first + 2] = [A EXCEPT !.num = B.num]]
  IN [ub |-> w.ub, s |-> [s EXCEPT !.bodies = b1, !.idx = ix]]

(* Faulty variant of OP_COMPOSE_MOVE_UP: the check that protects the      *)
(* fundamental part (current == 1) is missing.  C7 must tell it from the  *)
(* code.                                                                  *)
op_move_up_unguarded(s, trap) ==
  IF s.menu.current = 0 THEN [rc |-> "rejected", ub |-> "", s |-> s]
  ELSE LET w == compose_attach_swap(s, s.menu.current - 1, trap)
       IN [rc |-> "ok", ub |-> w.ub,
           s |-> [w.s EXCEPT !.menu.current = s.menu.current - 1]]

(* case OP_COMPOSE_MOVE_UP *)
op_move_up(s, trap) ==
  IF s.menu.current = 0 THEN [rc |-> "rejected", ub |-> "", s |-> s]
  ELSE IF s.menu.current = 1 THEN [rc |-> "rejected", ub |-> "", s |-> s]
  ELSE LET w == compose_attach_swap(s, s.menu.current - 1, trap)
       IN [rc |-> "ok", ub |-> w.ub,
           s |-> [w.s EXCEPT !.menu.current = s.menu.current - 1]]

(* case OP_COMPOSE_MOVE_DOWN *)
op_move_down(s, trap) ==
  IF s.menu.current = Len(s.idx) - 1 THEN [rc |-> "rejected", ub |-> "", s |-> s]
  ELSE IF s.menu.current = 0 THEN [rc |-> "rejected", ub |-> "", s |-> s]
  ELSE LET w == compose_attach_swap(s, s.menu.current, trap)
       IN [rc |-> "ok", ub |-> w.ub,
           s |-> [w.s EXCEPT !.menu.current = s.menu.current + 1]]

(* "make grouped attachments consecutive" (OP_COMPOSE_GROUP_ALTS): entry *)
(* i moves to position glastidx + 1, the entries between move up by one   *)
(* and the body now at position i is linked to the body that follows it.  *)
alts_shift(L) ==
  LET i == L.i
      g == L.glastidx
      n == Len(L.idx)
      saved == L.idx[i + 1]
      ix == [p \in 1..n |->
               IF p - 1 = g + 1 THEN saved
               ELSE IF p - 1 > g + 1 /\ p - 1 <= i
                    THEN [L.idx[p - 1] EXCEPT !.num = IF p - 2 >= g + 2 THEN @ + 1 ELSE @]
                    ELSE L.idx[p]]
      bs == IF n - 1 > i
            THEN [L.bodies EXCEPT ![ix[i + 1].body].next = ix[i + 2].body]
            ELSE [L.bodies EXCEPT ![ix[i + 1].body].next = NULL]
  IN [L EXCEPT !.idx = ix, !.bodies = bs]

(* ALTS_TAG, LINGUAL_TAG with the sprintf() that fills them in, and the    *)
(* descriptions made up for a group that got none                         *)
AltsTag == <<"Alternatives for">>

LingualTag == <<"Multilingual part for">>

UnknownAlts == <<"unknown alternative group">>

UnknownLingual == <<"unknown multilingual group">>

(* "for first match, set group desc according to match": what the group g *)
(* has as description after the tagged body b was met                     *)
group_description(tag, g, b) ==
  IF g.description # NoText THEN g.description
  ELSE LET p == IF b.description # NoText THEN b.description ELSE b.filename
       IN IF p # NoText THEN tag \o p ELSE NoText

(* One pass of the loop "for (int i = 0; bptr;)" of OP_COMPOSE_GROUP_ALTS *)
alts_step(L) ==
  LET bp == L.bptr
      bs == L.bodies
  IN IF ~bs[bp].tagged
     THEN [L EXCEPT !.bptr = bs[bp].next, !.i = L.i + 1]
     ELSE IF L.i >= Len(L.idx) THEN [L EXCEPT !.ub = "oob"]
     ELSE LET b1 == [bs EXCEPT ![bp].tagged = FALSE,
                               ![L.group].description =
                                  group_description(AltsTag, bs[L.group], bs[bp])]
          IN IF L.alts # NULL
             THEN LET b2 == [b1 EXCEPT ![L.alts].next = bp]
                      b3 == [b2 EXCEPT ![bp].next = NULL]
                      L1 == [L EXCEPT !.bodies = b3, !.bptr = b2[bp].next, !.alts = bp]
                      L2 == IF L.i > L.glastidx + 1 THEN alts_shift(L1) ELSE L1
                      gl == L.glastidx + 1
                  IN [L2 EXCEPT !.glastidx = gl,
                                !.idx[gl + 1].level = L.glevel + 1,
                                !.i = L.i + 1]
             ELSE [L EXCEPT !.gidx = L.i, !.glastidx = L.i,
                            !.glevel = L.idx[L.i + 1].level,
                            !.bodies = [b1 EXCEPT ![L.group].parts = bp,
                                                  ![bp].next = NULL],
                            !.alts = bp, !.bptr = b1[bp].next,
                            !.idx[L.i + 1].level = L.idx[L.i + 1].level + 1,
                            !.i = L.i + 1]

RECURSIVE alts_loop(_, _, _)
alts_loop(L, fuel, trap) ==
  IF L.bptr = NULL \/ L.ub # "" THEN L
  ELSE IF trap /\ L.bodies[L.bptr].type = "freed" THEN [L EXCEPT !.ub = "uaf"]
  ELSE IF fuel = 0 THEN [L EXCEPT !.ub = "hang"]
  ELSE alts_loop(alts_step(L), fuel - 1, trap)

(* mutt_body_new() for a group: multipart/<sub>, inline *)
GroupBody(sub) == [NewBody EXCEPT !.type = "multipart", !.subtype = sub]

(* case OP_COMPOSE_GROUP_ALTS *)
op_group_alts(s, trap) ==
  IF s.menu.tagged < 2 THEN [rc |-> "rejected", ub |-> "", s |-> s]
  ELSE LET group == s.used + 1
           L0 == [bodies |-> [s.bodies EXCEPT ![group] = GroupBody("alternative")],
                  idx |-> s.idx, bptr |-> s.e_body, i |-> 0, alts |-> NULL,
                  gidx |-> 0, glastidx |-> 0, glevel |-> 0, group |-> group,
                  ub |-> ""]
           L == alts_loop(L0, WalkFuel, trap)
           n == Len(L.idx)
           b1 == IF n - 1 > L.glastidx
                 THEN [L.bodies EXCEPT ![group].next = L.idx[L.glastidx + 2].body]
                 ELSE [L.bodies EXCEPT ![group].next = NULL]
           b2 == IF b1[group].description = NoText
                 THEN [b1 EXCEPT ![group].description = UnknownAlts]
                 ELSE b1
           gptr == AttachPtr(group, L.glevel, "other", FALSE)
           s1 == insert_idx([s EXCEPT !.bodies = b2, !.idx = L.idx, !.used = group],
                            gptr, L.gidx)
       IN IF L.ub # "" THEN [rc |-> "ok", ub |-> L.ub, s |-> s]
          ELSE [rc |-> "ok", ub |-> "",
                s |-> [s1 EXCEPT !.e_body = s1.idx[1].body, !.menu.current = L.gidx]]

(* "for (b = e->body; b; b = b->next) if (b->tagged && b->language ...)"  *)
(* of OP_COMPOSE_GROUP_LINGUAL: the count, or "hang" / "uaf"              *)
RECURSIVE tagged_with_lang_num(_, _, _, _)
tagged_with_lang_num(bs, b, fuel, trap) ==
  IF b = NULL THEN [ub |-> "", n |-> 0]
  ELSE IF trap /\ bs[b].type = "freed" THEN [ub |-> "uaf", n |-> 0]
  ELSE IF fuel = 0 THEN [ub |-> "hang", n |-> 0]
  ELSE LET rest == tagged_with_lang_num(bs, bs[b].next, fuel - 1, trap)
       IN [rest EXCEPT !.n = @ + (IF bs[b].tagged /\ bs[b].language THEN 1 ELSE 0)]

(* One pass of the loop "for (int i = 0; bptr;)" of                       *)
(* OP_COMPOSE_GROUP_LINGUAL: a tagged body is linked into the group and   *)
(* entry i is dropped from the array; idxlen-- also runs when i is past   *)
(* the end, which drops the last entry instead.                           *)
lingual_step(L) ==
  LET bp == L.bptr
      bs == L.bodies
      n == Len(L.idx)
  IN IF ~bs[bp].tagged
     THEN [L EXCEPT !.bptr = bs[bp].next, !.i = L.i + 1]
     ELSE IF n = 0 THEN [L EXCEPT !.ub = "oob"]
     ELSE LET b1 == [bs EXCEPT ![bp].tagged = FALSE,
                               ![L.group].description =
                                  group_description(LingualTag, bs[L.group], bs[bp])]
              b2 == IF L.alts # NULL
                    THEN [[b1 EXCEPT ![L.alts].next = bp] EXCEPT ![bp].next = NULL]
                    ELSE [b1 EXCEPT ![L.group].parts = bp, ![bp].next = NULL]
              nx == IF L.alts # NULL
                    THEN [b1 EXCEPT ![L.alts].next = bp][bp].next
                    ELSE b1[bp].next
              ix == IF L.i < n
                    THEN SubSeq(L.idx, 1, L.i) \o SubSeq(L.idx, L.i + 2, n)
                    ELSE SubSeq(L.idx, 1, n - 1)
          IN [L EXCEPT !.bodies = b2, !.bptr = nx, !.alts = bp, !.idx = ix]

RECURSIVE lingual_loop(_, _, _)
lingual_loop(L, fuel, trap) ==
  IF L.bptr = NULL \/ L.ub # "" THEN L
  ELSE IF trap /\ L.bodies[L.bptr].type = "freed" THEN [L EXCEPT !.ub = "uaf"]
  ELSE IF fuel = 0 THEN [L EXCEPT !.ub = "hang"]
  ELSE lingual_loop(lingual_step(L), fuel - 1, trap)

(* Faulty variant of OP_COMPOSE_GROUP_LINGUAL: the group is not appended  *)
(* to the array.  C36 must tell it from the code.                         *)
op_group_lingual_unlisted(s, ans, trap) ==
  IF s.menu.tagged < 2 THEN [rc |-> "rejected", ub |-> "", s |-> s]
  ELSE LET cnt == tagged_with_lang_num(s.bodies, s.e_body, WalkFuel, trap)
       IN IF cnt.ub # "" THEN [rc |-> "ok", ub |-> cnt.ub, s |-> s]
          ELSE IF s.menu.tagged # cnt.n /\ ans # "yes"
          THEN [rc |-> "declined", ub |-> "", s |-> s]
          ELSE LET group == s.used + 1
                   L0 == [bodies |-> [s.bodies EXCEPT ![group] = GroupBody("multilingual")],
                          idx |-> s.idx, bptr |-> s.e_body, i |-> 0, alts |-> NULL,
                          group |-> group, ub |-> ""]
                   L == lingual_loop(L0, WalkFuel, trap)
               IN IF L.ub # "" THEN [rc |-> "ok", ub |-> L.ub, s |-> s]
                  ELSE [rc |-> "ok", ub |-> "",
                        s |-> [s EXCEPT !.bodies = L.bodies, !.idx = L.idx,
                                        !.used = group, !.menu.current = 0]]

(* case OP_COMPOSE_GROUP_LINGUAL; ans is the answer to "Not all parts     *)
(* have 'Content-Language' set, continue?"                                *)
op_group_lingual(s, ans, trap) ==
  IF s.menu.tagged < 2 THEN [rc |-> "rejected", ub |-> "", s |-> s]
  ELSE LET cnt == tagged_with_lang_num(s.bodies, s.e_body, WalkFuel, trap)
       IN IF cnt.ub # "" THEN [rc |-> "ok", ub |-> cnt.ub, s |-> s]
          ELSE IF s.menu.tagged # cnt.n /\ ans # "yes"
          THEN [rc |-> "declined", ub |-> "", s |-> s]
          ELSE LET group == s.used + 1
                   L0 == [bodies |-> [s.bodies EXCEPT ![group] = GroupBody("multilingual")],
                          idx |-> s.idx, bptr |-> s.e_body, i |-> 0, alts |-> NULL,
                          group |-> group, ub |-> ""]
                   L == lingual_loop(L0, WalkFuel, trap)
                   b1 == IF L.bodies[group].description = NoText
                         THEN [L.bodies EXCEPT ![group].description = UnknownLingual]
                         ELSE L.bodies
                   gptr == AttachPtr(group, 0, "other", FALSE)
               IN IF L.ub # "" THEN [rc |-> "ok", ub |-> L.ub, s |-> s]
                  ELSE [rc |-> "ok", ub |-> "",
                        s |-> update_idx([s EXCEPT !.bodies = b1, !.idx = L.idx,
                                                   !.used = group], gptr)]

(* set_encoding(): bytes that do not pass as 7bit make a text           *)
(* quoted-printable and anything else base64                              *)
set_encoding(b, c) ==
  IF c.lobin + c.hibin = 0 THEN "7bit"
  ELSE IF b.type = "text" THEN "quoted-printable" ELSE "base64"

(* mutt_update_encoding(): the file is read again; nothing happens if it  *)
(* cannot be read                                                         *)
mutt_update_encoding(bs, b) ==
  IF ~bs[b].exists THEN bs
  ELSE [bs EXCEPT ![b].info = Info(bs[b].file),
                  ![b].encoding = set_encoding(bs[b], bs[b].file),
                  ![b].stamp = bs[b].mtime]

(* mutt_get_content_info(b->filename, b, sub): NULL if there is no file   *)
(* to read, as for a multipart                                            *)
mutt_get_content_info(b) ==
  IF b.type = "multipart" \/ ~b.exists THEN NoInfo ELSE Info(b.file)

(* Faulty variant of the size of one attachment: quoted-printable counts  *)
(* as the other encodings do.  C27 must tell it from the code.            *)
attach_size_raw(b, info) ==
  IF ~info.valid THEN 0
  ELSE IF b.encoding = "base64"
  THEN (4 * (info.lobin + info.hibin + info.ascii + info.crlf)) \div 3
  ELSE info.lobin + info.hibin + info.ascii + info.crlf

(* cum_attachs_size(): what one attachment with classification info adds *)
attach_size(b, info) ==
  IF ~info.valid THEN 0
  ELSE IF b.encoding = "quoted-printable"
  THEN 3 * (info.lobin + info.hibin) + info.ascii + info.crlf
  ELSE IF b.encoding = "base64"
  THEN (4 * (info.lobin + info.hibin + info.ascii + info.crlf)) \div 3
  ELSE info.lobin + info.hibin + info.ascii + info.crlf

(* cum_attachs_size(): the loop from array position i on; a missing       *)
(* classification is fetched and kept                                     *)
RECURSIVE cum_attachs_size_from(_, _, _, _)
cum_attachs_size_from(bs, ix, i, sum) ==
  IF i > Len(ix) THEN [ub |-> "", bodies |-> bs, size |-> sum]
  ELSE LET b == ix[i].body
       IN IF bs[b].type \in {"none", "freed"}
          THEN [ub |-> "uaf", bodies |-> bs, size |-> sum]
          ELSE LET info == IF bs[b].info.valid THEN bs[b].info
                           ELSE mutt_get_content_info(bs[b])
               IN cum_attachs_size_from([bs EXCEPT ![b].info = info], ix, i + 1,
                                        sum + attach_size(bs[b], info))

(* cum_attachs_size(menu), called when the status line is drawn *)
cum_attachs_size(s) ==
  LET c == cum_attachs_size_from(s.bodies, s.idx, 1, 0)
  IN [rc |-> "ok", ub |-> c.ub, s |-> [s EXCEPT !.bodies = c.bodies],
      out |-> [NoOut EXCEPT !.size = c.size]]

(* Faulty variant of the stat() test: a file that is gone is not noticed. *)
(* C21 must tell it from the code.                                        *)
stat_never_fails(b) ==
  FALSE

(* stat(body->filename, &st) != 0 *)
stat_fails(b) ==
  ~b.exists

(* Faulty variant of the test for a changed file: a file as old as the    *)
(* stamp is asked about too.  C22 must tell it from the code.             *)
stamp_not_newer(b) ==
  b.stamp <= b.mtime

(* body->stamp < st.st_mtime *)
stamp_older(b) ==
  b.stamp < b.mtime

(* check_attachments(): the loop from array position i on (from 1, as in  *)
(* the attachment number of the messages); ans[i] is the answer to the    *)
(* question about attachment i                                            *)
RECURSIVE check_attachments_from(_, _, _, _, _)
check_attachments_from(bs, ix, i, ans, o) ==
  IF i > Len(ix) THEN [rc |-> 0, ub |-> "", bodies |-> bs, out |-> o]
  ELSE LET b == ix[i].body
           o1 == [o EXCEPT !.examined = @ \cup {i}]
       IN IF bs[b].type \in {"none", "freed"}
          THEN [rc |-> -1, ub |-> "uaf", bodies |-> bs, out |-> o]
          ELSE IF bs[b].type = "multipart"
          THEN check_attachments_from(bs, ix, i + 1, ans, o)
          ELSE IF stat_fails(bs[b])
          THEN [rc |-> -1, ub |-> "", bodies |-> bs, out |-> [o1 EXCEPT !.err = i]]
          ELSE IF stamp_older(bs[b])
          THEN LET o2 == [o1 EXCEPT !.prompted = @ \cup {i}]
               IN IF ans[i] = "yes"
                  THEN check_attachments_from(mutt_update_encoding(bs, b), ix, i + 1, ans,
                                              [o2 EXCEPT !.updated = @ \cup {i}])
                  ELSE IF ans[i] = "abort"
                  THEN [rc |-> -1, ub |-> "", bodies |-> bs, out |-> o2]
                  ELSE check_attachments_from(bs, ix, i + 1, ans, o2)
          ELSE check_attachments_from(bs, ix, i + 1, ans, o1)

(* check_attachments(actx, sub) *)
check_attachments(s, ans) == check_attachments_from(s.bodies, s.idx, 1, ans, NoOut)

(* Faulty variant of the end of mutt_compose_menu(): e->body is left as   *)
(* it is.  C25 must tell it from the code.                                *)
session_end_keeps_root(s) ==
  s

(* The end of mutt_compose_menu(): e->body is taken from the array *)
session_end(s) ==
  [s EXCEPT !.e_body = IF Len(s.idx) > 0 THEN s.idx[1].body ELSE NULL]

(* Faulty variant of OP_COMPOSE_SEND_MESSAGE: the result of              *)
(* check_attachments() is not looked at.  C24 must tell it from the code. *)
op_send_unchecked(s, ans, go) ==
  LET c == check_attachments(s, ans)
      s1 == [s EXCEPT !.bodies = c.bodies]
  IN IF ~go THEN [rc |-> "stay", ub |-> c.ub, s |-> s1, out |-> c.out]
     ELSE [rc |-> "sent", ub |-> c.ub, s |-> session_end(s1), out |-> c.out]

(* case OP_COMPOSE_SEND_MESSAGE; go is FALSE if mix_check_message() fails *)
(* or the question about the copy is aborted                              *)
op_send(s, ans, go) ==
  LET c == check_attachments(s, ans)
      s1 == [s EXCEPT !.bodies = c.bodies]
  IN IF c.rc # 0 THEN [rc |-> "invalid", ub |-> c.ub, s |-> s1, out |-> c.out]
     ELSE IF ~go THEN [rc |-> "stay", ub |-> "", s |-> s1, out |-> c.out]
     ELSE [rc |-> "sent", ub |-> "", s |-> session_end(s1), out |-> c.out]

(* case OP_COMPOSE_POSTPONE_MESSAGE *)
op_postpone(s, ans) ==
  LET c == check_attachments(s, ans)
      s1 == [s EXCEPT !.bodies = c.bodies]
  IN IF c.rc # 0 THEN [rc |-> "invalid", ub |-> c.ub, s |-> s1, out |-> c.out]
     ELSE [rc |-> "postponed", ub |-> "", s |-> session_end(s1), out |-> c.out]

(* The last body of the chain that starts at b *)
RECURSIVE chain_end(_, _, _)
chain_end(bs, b, fuel) ==
  IF bs[b].next = NULL \/ fuel = 0 THEN b ELSE chain_end(bs, bs[b].next, fuel - 1)

(* case OP_COMPOSE_EDIT_HEADERS: mutt_edit_headers() may have appended an  *)
(* attachment (add) to the chain of e->body; the array is built anew if   *)
(* the body of its last entry has got a successor.                        *)
op_edit_headers(s, add) ==
  LET n == s.used + 1
      s1 == IF add
            THEN [s EXCEPT !.bodies[n] = FileAttach, !.used = n,
                           !.bodies[chain_end(s.bodies, s.e_body, WalkFuel)].next = n]
            ELSE s
      len == Len(s1.idx)
  IN IF len > 0 /\ s1.bodies[s1.idx[len].body].next # NULL
     THEN LET ix == mutt_gen_compose_attach_list(s1.bodies, s1.e_body, "none", 0, WalkFuel)
          IN [rc |-> "ok", ub |-> "",
              s |-> mutt_update_compose_menu(
                      [s1 EXCEPT !.bodies = mutt_attach_init(s1.bodies, ix), !.idx = ix])]
     ELSE [rc |-> "same", ub |-> "", s |-> s1]

(* case OP_EXIT, answer "no": the release loop over the entries from      *)
(* entry i on.  Releasing a body that was released before is undefined.   *)
RECURSIVE exit_free(_, _, _)
exit_free(bs, ix, i) ==
  IF i > Len(ix) THEN [ub |-> "", bodies |-> bs]
  ELSE LET b == ix[i].body
       IN IF bs[b].type \in {"none", "freed"} THEN [ub |-> "uaf", bodies |-> bs]
          ELSE exit_free(mutt_body_free(Unchain(bs, b), b, WalkFuel), ix, i + 1)

(* Faulty variant of OP_EXIT: the unlink flags of the user-owned entries  *)
(* are left as they are.  C38 must tell it from the code.                 *)
op_exit_keeps_unlink(s, nofree) ==
  LET f == IF nofree THEN [ub |-> "", bodies |-> s.bodies]
           ELSE exit_free(s.bodies, s.idx, 1)
  IN [rc |-> "end", ub |-> f.ub, s |-> session_end([s EXCEPT !.bodies = f.bodies])]

(* case OP_EXIT with the draft not postponed, then the end of             *)
(* mutt_compose_menu(); nofree is flags & MUTT_COMPOSE_NOFREEHEADER       *)
op_exit(s, nofree) ==
  LET kept == [b \in Nodes |->
                 IF \E i \in 1..Len(s.idx) : s.idx[i].body = b /\ s.idx[i].unowned
                 THEN [s.bodies[b] EXCEPT !.unlink = FALSE] ELSE s.bodies[b]]
      f == IF nofree THEN [ub |-> "", bodies |-> kept] ELSE exit_free(kept, s.idx, 1)
  IN [rc |-> "end", ub |-> f.ub, s |-> session_end([s EXCEPT !.bodies = f.bodies])]

----------------------------------------------------------------------------
(* The message bodies a session can start with: e->body and what hangs    *)
(* below it.  The constructors of a message hand the compose menu a flat  *)
(* chain of parts...                                                      *)
FlatTrees ==
  { t \in
     { [used |-> 1, bodies |-> Arena(<<TextBody(NULL)>>, 1)],
       [used |-> 2, bodies |-> Arena(<<TextBody(2), TextBody(NULL)>>, 2)] } :
     t.used <= MaxNodes }

(* ... but the flattening also takes a message that is already multipart *)
NestedTrees ==
  { t \in
     { [used |-> 2, bodies |-> Arena(<<MultiBody("encrypted", 2, NULL),
                                      TextBody(NULL)>>, 2)],
       [used |-> 3, bodies |-> Arena(<<MultiBody("mixed", 2, NULL),
                                      TextBody(3), TextBody(NULL)>>, 3)],
       [used |-> 4, bodies |-> Arena(<<MultiBody("mixed", 2, NULL), TextBody(3),
                                      MultiBody("alternative", 4, NULL),
                                      TextBody(NULL)>>, 4)] } :
     t.used <= MaxNodes }

(* Every message of up to MaxTreeNodes bodies, numbered parent first: a   *)
(* body is text or a multipart (mixed or encrypted), with parts or        *)
(* without                                                                *)
TreeKinds == {"text", "mixed", "encrypted"}

TreeBody(k, p, nx) == IF k = "text" THEN TextBody(nx) ELSE MultiBody(k, p, nx)

TreeShapes(n) ==
  { sh \in [kind : [1..n -> TreeKinds], parts : [1..n -> 0..n], next : [1..n -> 0..n]] :
      /\ \A i \in 1..n :
           /\ sh.parts[i] \in (IF sh.kind[i] = "text" THEN {NULL} ELSE {NULL, i + 1})
           /\ sh.next[i] = NULL \/ sh.next[i] > i
      /\ \A j \in 2..n :
           Cardinality({i \in 1..n : sh.parts[i] = j}) +
           Cardinality({i \in 1..n : sh.next[i] = j}) = 1 }

MessageTrees ==
  UNION { { [used |-> n,
             bodies |-> Arena([b \in 1..n |->
                                 TreeBody(sh.kind[b], sh.parts[b], sh.next[b])], n)] :
            sh \in TreeShapes(n) } : n \in 1..MaxTreeNodes }

(* mutt_compose_menu() up to the first mutt_menu_loop():                  *)
(* mutt_update_compose_menu(actx, menu, true)                             *)
InitFrom(T) ==
  \E t \in T :
    LET ix == mutt_gen_compose_attach_list(t.bodies, 1, "none", 0, WalkFuel)
    IN /\ bodies = mutt_attach_init(t.bodies, ix)
       /\ idx = mutt_update_tree(ix)
       /\ e_body = 1
       /\ menu = [current |-> 0, tagged |-> 0]
       /\ used = t.used
       /\ last = [op |-> "init", rc |-> "ok"]
       /\ out = NoOut

Init == InitFrom(FlatTrees)

(* The handler's result becomes the next state.  A handler that steps     *)
(* onto a released body, reads past the array or never leaves its loop    *)
(* ends the session: last.rc names which.                                 *)
Apply(op, r) ==
  LET t == IF r.ub # "" THEN St ELSE r.s
  IN /\ bodies' = t.bodies
     /\ idx' = t.idx
     /\ e_body' = t.e_body
     /\ menu' = t.menu
     /\ used' = t.used
     /\ last' = [op |-> op, rc |-> IF r.ub # "" THEN r.ub ELSE r.rc]
     /\ out' = IF r.ub = "" /\ "out" \in DOMAIN r THEN r.out ELSE NoOut

Running == last.rc \notin {"hang", "uaf", "oob", "end", "sent", "postponed"}

(* menu navigation (OP_NEXT_ENTRY, OP_PREV_ENTRY, ...) *)
MenuMove ==
  /\ Running
  /\ \E i \in 0..(Len(idx) - 1) :
       Apply("move", [rc |-> "ok", ub |-> "", s |-> [St EXCEPT !.menu.current = i]])

(* OP_TAG with menu->tag = attach_tag *)
Tag(cap) ==
  /\ Running
  /\ Len(idx) > 0
  /\ LET b == idx[menu.current + 1].body
         ot == bodies[b].tagged
     IN /\ (~ot => menu.tagged < cap)
        /\ Apply("tag", [rc |-> "ok", ub |-> "",
                      s |-> [St EXCEPT !.bodies[b].tagged = ~ot,
                                       !.menu.tagged = @ + (IF ot THEN -1 ELSE 1)]])

(* case OP_COMPOSE_ATTACH_FILE, one file *)
AttachFile(lim) ==
  /\ Running
  /\ used < lim
  /\ LET n == used + 1
     IN Apply("attach", [rc |-> "ok", ub |-> "",
               s |-> update_idx([St EXCEPT !.bodies[n] = FileAttach, !.used = n],
                                AttachPtr(n, 0, "other", TRUE))])

(* case OP_COMPOSE_ATTACH_MESSAGE, one tagged message *)
AttachMessage(lim) ==
  /\ Running
  /\ used < lim
  /\ LET n == used + 1
     IN Apply("attach", [rc |-> "ok", ub |-> "",
               s |-> update_idx([St EXCEPT !.bodies[n] = MessageAttach, !.used = n],
                                AttachPtr(n, 0, "other", FALSE))])

Delete ==
  /\ Running
  /\ LET r == op_delete(St) IN Apply("delete", [rc |-> r.rc, ub |-> "", s |-> r.s])

MoveUp ==
  /\ Running
  /\ \E trap \in BOOLEAN : Apply("move_up", op_move_up(St, trap))

MoveDown ==
  /\ Running
  /\ \E trap \in BOOLEAN : Apply("move_down", op_move_down(St, trap))

GroupAlts(lim) ==
  /\ Running
  /\ (menu.tagged >= 2 => used < lim)
  /\ \E trap \in BOOLEAN : Apply("group_alts", op_group_alts(St, trap))

GroupLingual(lim) ==
  /\ Running
  /\ (menu.tagged >= 2 => used < lim)
  /\ \E ans \in {"yes", "no"}, trap \in BOOLEAN :
       Apply("group_lingual", op_group_lingual(St, ans, trap))

(* case OP_COMPOSE_TOGGLE_UNLINK *)
ToggleUnlink ==
  /\ Running
  /\ Len(idx) > 0
  /\ LET b == idx[menu.current + 1].body
     IN Apply("toggle_unlink", [rc |-> "ok", ub |-> "",
               s |-> [St EXCEPT !.bodies[b].unlink = ~bodies[b].unlink]])

(* case OP_COMPOSE_EDIT_LANGUAGE, a non-empty Content-Language entered *)
EditLanguage ==
  /\ Running
  /\ Len(idx) > 0
  /\ LET b == idx[menu.current + 1].body
     IN Apply("edit_language", [rc |-> "ok", ub |-> "",
               s |-> [St EXCEPT !.bodies[b].language = TRUE]])

(* insert_idx() applied to the session as it stands: a new body of depth *)
(* d at position i.  The session is not followed any further.             *)
InsertAt(lim) ==
  /\ Running
  /\ used < lim
  /\ \E i \in 0..Len(idx), d \in 0..MaxDepth :
       LET n == used + 1
       IN Apply("insert", [rc |-> "end", ub |-> "",
                 s |-> insert_idx([St EXCEPT !.bodies[n] = NewBody, !.used = n],
                                  AttachPtr(n, d, "other", FALSE), i)])

(* The answers to the questions of one check_attachments(): it asks      *)
(* about no other entries than those whose file is newer than the stamp   *)
Answers ==
  [{i \in 1..Len(idx) : stamp_older(bodies[idx[i].body])} -> {"yes", "no", "abort"}]

(* case OP_EXIT: the draft is not postponed, the question is aborted, or  *)
(* the draft is postponed (fallthrough to OP_COMPOSE_POSTPONE_MESSAGE)    *)
Exit ==
  /\ Running
  /\ \/ \E nofree \in BOOLEAN : Apply("exit", op_exit(St, nofree))
     \/ Apply("exit", [rc |-> "stay", ub |-> "", s |-> St])
     \/ \E ans \in Answers : Apply("exit", op_postpone(St, ans))

(* case OP_COMPOSE_SEND_MESSAGE *)
Send ==
  /\ Running
  /\ \E ans \in Answers, go \in BOOLEAN : Apply("send", op_send(St, ans, go))

(* case OP_COMPOSE_POSTPONE_MESSAGE *)
Postpone ==
  /\ Running
  /\ \E ans \in Answers : Apply("postpone", op_postpone(St, ans))

(* compose_format_str(), expando %l: the status line shows the size *)
StatusRedraw ==
  /\ Running
  /\ Apply("redraw", cum_attachs_size(St))

(* The encodings OP_COMPOSE_EDIT_ENCODING takes *)
Encodings == {"7bit", "quoted-printable", "base64", "binary"}

(* case OP_COMPOSE_EDIT_ENCODING *)
EditEncoding ==
  /\ Running
  /\ Len(idx) > 0
  /\ \E enc \in Encodings :
       LET b == idx[menu.current + 1].body
       IN Apply("edit_encoding", [rc |-> "ok", ub |-> "",
                 s |-> [St EXCEPT !.bodies[b].encoding = enc]])

(* What a file holds after it was written to *)
TouchedFile == Counts(0, MaxCount, 0, 0)

(* Outside the program: the file of a listed attachment is written to,    *)
(* removed, or put back                                                   *)
TouchFile ==
  /\ Running
  /\ \E i \in 1..Len(idx) :
       LET b == idx[i].body
       IN /\ bodies[b].type \notin {"multipart", "none", "freed"}
          /\ bodies[b].exists
          /\ bodies[b].mtime < MaxTime
          /\ Apply("touch", [rc |-> "ok", ub |-> "",
                    s |-> [St EXCEPT !.bodies[b].mtime = @ + 1,
                                     !.bodies[b].file = TouchedFile]])

RemoveFile ==
  /\ Running
  /\ \E i \in 1..Len(idx) :
       LET b == idx[i].body
       IN /\ bodies[b].type \notin {"multipart", "none", "freed"}
          /\ bodies[b].exists
          /\ Apply("remove", [rc |-> "ok", ub |-> "",
                    s |-> [St EXCEPT !.bodies[b].exists = FALSE]])

RestoreFile ==
  /\ Running
  /\ \E i \in 1..Len(idx) :
       LET b == idx[i].body
       IN /\ bodies[b].type \notin {"multipart", "none", "freed"}
          /\ ~bodies[b].exists
          /\ Apply("restore", [rc |-> "ok", ub |-> "",
                    s |-> [St EXCEPT !.bodies[b].exists = TRUE]])

(* case OP_COMPOSE_EDIT_HEADERS *)
EditHeaders(lim) ==
  /\ Running
  /\ \E add \in BOOLEAN :
       /\ (add => used < lim)
       /\ Apply("edit_headers", op_edit_headers(St, add))

(* The structural edits, on sessions of up to MaxNodes bodies *)
Next ==
  \/ MenuMove
  \/ Tag(MaxTagged)
  \/ AttachFile(MaxNodes)
  \/ Delete
  \/ MoveUp
  \/ MoveDown
  \/ GroupAlts(MaxNodes)
  \/ GroupLingual(MaxNodes)

Spec == Init /\ [][Next]_vars

(* The structural edits on sessions of up to MaxSmallNodes bodies *)
NextSmall ==
  \/ MenuMove
  \/ Tag(MaxSmallTagged)
  \/ AttachFile(MaxSmallNodes)
  \/ Delete
  \/ MoveUp
  \/ MoveDown
  \/ GroupAlts(MaxSmallNodes)
  \/ GroupLingual(MaxSmallNodes)

SpecSmall == Init /\ [][NextSmall]_vars

(* The same with message attachments and the unlink toggle, on sessions   *)
(* of up to MaxFlagNodes bodies                                           *)
InitFlags == Init /\ used <= MaxFlagNodes

NextFlags ==
  \/ MenuMove
  \/ Tag(MaxSmallTagged)
  \/ AttachFile(MaxFlagNodes)
  \/ AttachMessage(MaxFlagNodes)
  \/ Delete
  \/ MoveUp
  \/ MoveDown
  \/ GroupAlts(MaxFlagNodes)
  \/ GroupLingual(MaxFlagNodes)
  \/ ToggleUnlink

SpecFlags == InitFlags /\ [][NextFlags]_vars

(* The same with the ways to leave the session *)
NextUnlink ==
  \/ NextFlags
  \/ Exit

SpecUnlink == InitFlags /\ [][NextUnlink]_vars

(* The structural edits on sessions that start from any of the trees *)
InitTrees == InitFrom(FlatTrees \cup NestedTrees)

SpecTrees == InitTrees /\ [][Next]_vars

(* Attaching, deleting and grouping alternatives on sessions of up to    *)
(* MaxNodes bodies                                                        *)
NextEdit ==
  \/ MenuMove
  \/ Tag(MaxSmallTagged)
  \/ AttachFile(MaxNodes)
  \/ Delete
  \/ GroupAlts(MaxNodes)

SpecEdit == Init /\ [][NextEdit]_vars

(* The same, with insert_idx() tried at every position and depth *)
NextInsert ==
  \/ NextEdit
  \/ InsertAt(MaxNodes)

SpecInsert == Init /\ [][NextInsert]_vars

(* The operations that set the selection: the structural edits on         *)
(* sessions of up to MaxSmallNodes bodies, and insert_idx() at every      *)
(* position and depth                                                     *)
NextSelect ==
  \/ NextSmall
  \/ InsertAt(MaxSmallNodes)

SpecSelect == Init /\ [][NextSelect]_vars

(* Attaching files and messages, grouping, deleting and leaving without  *)
(* postponing, on sessions of up to MaxSmallNodes bodies                  *)
NextRelease ==
  \/ MenuMove
  \/ Tag(MaxSmallTagged)
  \/ AttachFile(MaxSmallNodes)
  \/ AttachMessage(MaxSmallNodes)
  \/ Delete
  \/ GroupAlts(MaxSmallNodes)
  \/ Exit

SpecRelease == Init /\ [][NextRelease]_vars

(* Deleting attachments, files changing under the session, and the ways  *)
(* to leave it, on sessions that start from a flat message, from          *)
(* an encrypted multipart with a part after it, or from a multipart of    *)
(* two parts                                                              *)
SendTrees ==
  { [used |-> 3, bodies |-> Arena(<<MultiBody("encrypted", 2, 3), TextBody(NULL),
                                   TextBody(NULL)>>, 3)],
    [used |-> 3, bodies |-> Arena(<<MultiBody("mixed", 2, NULL), TextBody(3),
                                   TextBody(NULL)>>, 3)] }

InitSend == InitFrom(FlatTrees \cup SendTrees)

NextSend ==
  \/ MenuMove
  \/ Delete
  \/ TouchFile
  \/ RemoveFile
  \/ RestoreFile
  \/ Send
  \/ Postpone
  \/ Exit

SpecSend == InitSend /\ [][NextSend]_vars

(* The size shown for a message of one part whose file holds any counts  *)
(* up to MaxCount, in any encoding, classified already or not             *)
SizedTrees ==
  { [used |-> 1,
     bodies |-> Arena(<<[TextBody(NULL) EXCEPT
                           !.file = c, !.encoding = enc,
                           !.info = IF cached THEN Info(c) ELSE NoInfo]>>, 1)] :
    c \in [lobin : 0..MaxCount, hibin : 0..MaxCount, ascii : 0..MaxCount,
           crlf : 0..MaxCount],
    enc \in Encodings, cached \in BOOLEAN }

InitSize == InitFrom(SizedTrees)

NextSize ==
  \/ MenuMove
  \/ RemoveFile
  \/ EditEncoding
  \/ StatusRedraw

SpecSize == InitSize /\ [][NextSize]_vars

(* The size shown while the parts of a message of two parts, each with   *)
(* MaxCount bytes in its file, are tagged and grouped                     *)
TotalTrees ==
  { [used |-> 2,
     bodies |-> Arena(<<[TextBody(2) EXCEPT !.file = Counts(0, 0, MaxCount, 0)],
                        [TextBody(NULL) EXCEPT !.file = Counts(0, 0, MaxCount, 0)]>>, 2)] }

InitTotal == InitFrom(TotalTrees)

NextTotal ==
  \/ MenuMove
  \/ Tag(MaxSmallTagged)
  \/ AttachFile(MaxSmallNodes)
  \/ Delete
  \/ GroupAlts(MaxNodes)
  \/ GroupLingual(MaxNodes)
  \/ StatusRedraw

SpecTotal == InitTotal /\ [][NextTotal]_vars

(* Flattening any message, at the start and after the headers were       *)
(* edited                                                                 *)
InitFlatten == InitFrom(MessageTrees)

NextFlatten ==
  \/ MenuMove
  \/ EditHeaders(MaxNodes)

SpecFlatten == InitFlatten /\ [][NextFlatten]_vars

(* Tagging, languages and the multilingual grouping on sessions that     *)
(* start from any of the trees                                            *)
NextLang ==
  \/ MenuMove
  \/ Tag(MaxSmallTagged)
  \/ AttachFile(MaxSmallNodes)
  \/ Delete
  \/ EditLanguage
  \/ GroupLingual(MaxNodes)

SpecLang == InitTrees /\ [][NextLang]_vars

----------------------------------------------------------------------------
(* Vocabulary of the properties *)

EditOps == {"attach", "delete", "move_up", "move_down", "group_alts", "group_lingual"}

MoveOps == {"move_up", "move_down"}

GroupOps == {"group_alts", "group_lingual"}

(* The (node, depth) pairs of an array of entries *)
Pairs(ix) == [i \in 1..Len(ix) |-> <<ix[i].body, ix[i].level>>]

(* Re-flattening the tree from the session's root *)
Reflatten == mutt_gen_compose_attach_list(bodies, e_body, "none", 0, WalkFuel)

(* Bodies reachable from r along next and parts links *)
RECURSIVE Closure(_, _, _)
Closure(bs, S, k) ==
  IF k = 0 THEN S
  ELSE Closure(bs, (S \cup {bs[n].next : n \in S} \cup {bs[n].parts : n \in S}) \ {NULL},
               k - 1)

ReachFrom(bs, r) == Closure(bs, {r} \ {NULL}, MaxNodes)

Reach == ReachFrom(bodies, e_body)

(* The links, held by reachable bodies, that point at t *)
InLinks(t) ==
  {<<m, "next">> : m \in {x \in Reach : bodies[x].next = t}} \cup
  {<<m, "parts">> : m \in {x \in Reach : bodies[x].parts = t}}

(* Number of entries whose body carries the tagged flag *)
ActualTagged == Cardinality({i \in 1..Len(idx) : bodies[idx[i].body].tagged})

(* Tree links of all bodies, and which bodies are live *)
Links(bs) == [n \in Nodes |-> <<bs[n].type \in {"none", "freed"}, bs[n].next, bs[n].parts>>]

----------------------------------------------------------------------------
(* C1: after every successful edit operation, flattening the tree again   *)
(* from the root gives the same sequence of (node, depth) pairs as the    *)
(* maintained flat array.                                                 *)
C1_PreorderConsistency ==
  (last.op \in EditOps /\ last.rc = "ok") => Pairs(Reflatten) = Pairs(idx)

(* C2: every next link of a body reachable from the root names a body    *)
(* that is not released, has no other incoming link (next or parts), is   *)
(* not the root and does not lead back to the link's holder.              *)
C2_NoDanglingSiblings ==
  \A n \in Reach :
    LET t == bodies[n].next
    IN t # NULL =>
         /\ bodies[t].type # "freed"
         /\ Cardinality(InLinks(t)) = 1
         /\ t # e_body
         /\ n \notin ReachFrom(bodies, t)

(* C3: two adjacent entries of equal depth are linked by next, and where  *)
(* the depth increases the second body is the first child of the first.   *)
C3_Adjacency ==
  \A i \in 1..(Len(idx) - 1) :
    /\ idx[i].level = idx[i + 1].level =>
         bodies[idx[i].body].next = idx[i + 1].body
    /\ idx[i].level < idx[i + 1].level =>
         bodies[idx[i].body].parts = idx[i + 1].body

(* C4: every step changes the tree links and the flat array together or   *)
(* changes neither of them; a swap never reorders the array alone.        *)
C4_Atomic ==
  [][(Links(bodies') # Links(bodies)) <=> (Pairs(idx') # Pairs(idx))]_vars

(* C5 as stated: a rejected operation leaves links, array, node flags and *)
(* selection as they were.                                                *)
C5_RejectedNoChange ==
  [][last'.rc = "rejected" =>
       /\ bodies' = bodies
       /\ idx' = idx
       /\ e_body' = e_body
       /\ menu'.current = menu.current]_vars

(* C5 as amended: a rejected operation leaves links, array, root, selection *)
(* and tag count as they were and allocates nothing; a rejected swap or   *)
(* grouping changes no body at all; the rejected delete of the only       *)
(* attachment clears that body's tagged flag and, if the entry is         *)
(* user-owned, its unlink flag, and nothing else.                         *)
C5_RejectedFrame ==
  [][last'.rc = "rejected" =>
       /\ idx' = idx
       /\ e_body' = e_body
       /\ menu' = menu
       /\ used' = used
       /\ Links(bodies') = Links(bodies)
       /\ last'.op # "delete" => bodies' = bodies
       /\ last'.op = "delete" =>
            /\ Len(idx) = 1
            /\ bodies' = [bodies EXCEPT
                            ![idx[1].body].tagged = FALSE,
                            ![idx[1].body].unlink = IF idx[1].unowned THEN FALSE ELSE @]]_vars

C5_Witness ==
  /\ last = [op |-> "delete", rc |-> "rejected"]
  /\ Len(idx) = 1
  /\ idx[1].unowned
  /\ menu.tagged > 0
  /\ ~bodies[idx[1].body].tagged

(* C6: a delete on an array of length 1 is rejected; the array, the links *)
(* and the liveness of every body stay as they were and the body's tagged *)
(* flag is false afterwards.                                              *)
C6_DeleteSoleRejected ==
  [][(last'.op = "delete" /\ Len(idx) = 1) =>
       /\ last'.rc = "rejected"
       /\ idx' = idx
       /\ Links(bodies') = Links(bodies)
       /\ ~bodies'[idx[1].body].tagged]_vars

C6_Witness ==
  /\ last = [op |-> "delete", rc |-> "rejected"]
  /\ Len(idx) = 1
  /\ menu.tagged > 0
  /\ bodies[idx[1].body].type = "text"
  /\ ~bodies[idx[1].body].tagged

(* C7: move-up with the selection at 0 or 1 and move-down with the        *)
(* selection at 0 or at the last position are rejected and change         *)
(* nothing; no move changes the entry at position 0.                      *)
C7_FundamentalFixed ==
  [][/\ (last'.op = "move_up" /\ menu.current \in {0, 1}) =>
          (last'.rc = "rejected" /\ idx' = idx /\ bodies' = bodies /\ menu' = menu)
     /\ (last'.op = "move_down" /\ menu.current \in {0, Len(idx) - 1}) =>
          (last'.rc = "rejected" /\ idx' = idx /\ bodies' = bodies /\ menu' = menu)
     /\ (last'.op \in MoveOps /\ Len(idx) > 0) => idx'[1] = idx[1]]_vars

C7_Witness ==
  /\ last = [op |-> "move_up", rc |-> "rejected"]
  /\ menu.current = 1
  /\ Len(idx) >= 3
  /\ idx[1].level # idx[2].level

(* C8: a move whose two entries are at different depths changes neither   *)
(* the flat array nor the tree.                                           *)
C8_SwapSameDepthOnly ==
  [][/\ (/\ last'.op = "move_up"
         /\ menu.current >= 1 /\ menu.current < Len(idx)
         /\ idx[menu.current].level # idx[menu.current + 1].level) =>
          (idx' = idx /\ Links(bodies') = Links(bodies))
     /\ (/\ last'.op = "move_down"
         /\ menu.current + 2 <= Len(idx)
         /\ idx[menu.current + 1].level # idx[menu.current + 2].level) =>
          (idx' = idx /\ Links(bodies') = Links(bodies))]_vars

(* C9: a grouping called while fewer than 2 entries carry the tagged flag *)
(* is rejected and creates no group body.                                 *)
C9_GroupNeedsTwoTagged ==
  [][(last'.op \in GroupOps /\ ActualTagged < 2) =>
       (last'.rc = "rejected" /\ used' = used)]_vars

(* Entries of ix from position i on whose body's tagged flag equals f, as *)
(* (node, depth) pairs; tagged ones at depth d                            *)
RECURSIVE Pick(_, _, _, _)
Pick(ix, i, f, d) ==
  IF i > Len(ix) THEN <<>>
  ELSE (IF bodies[ix[i].body].tagged = f
        THEN <<(<<ix[i].body, IF f THEN d ELSE ix[i].level>>)>>
        ELSE <<>>) \o Pick(ix, i + 1, f, d)

TaggedPos == {i \in 1..Len(idx) : bodies[idx[i].body].tagged}

(* The array C10 promises after grouping the tagged entries under group *)
GroupedArray(group) ==
  LET p == Min(TaggedPos)
      d == idx[p].level
  IN SubSeq(Pairs(idx), 1, p - 1) \o <<(<<group, d>>)>> \o
     Pick(idx, p, TRUE, d + 1) \o Pick(idx, p, FALSE, 0)

(* C10: after a successful group-alternatives the array is: the entries   *)
(* before the first tagged one, the group at its position and depth, the  *)
(* tagged entries one level deeper, then the untagged rest.               *)
C10_GroupAltsArray ==
  [][(last'.op = "group_alts" /\ last'.rc = "ok" /\ TaggedPos # {}) =>
       Pairs(idx') = GroupedArray(used + 1)]_vars

(* The bodies met from b along next links, in order *)
RECURSIVE Chain(_, _, _)
Chain(bs, b, fuel) ==
  IF b = NULL \/ fuel = 0 THEN <<>>
  ELSE <<b>> \o Chain(bs, bs[b].next, fuel - 1)

Range(sq) == {sq[i] : i \in 1..Len(sq)}

(* The bodies of the tagged entries, in array order *)
TaggedSeq ==
  LET sel == SelectSeq(idx, LAMBDA e : bodies[e.body].tagged)
  IN [i \in 1..Len(sel) |-> sel[i].body]

(* The first body at or after b on the chain that is not tagged *)
RECURSIVE FirstUntagged(_, _, _)
FirstUntagged(bs, b, fuel) ==
  IF b = NULL \/ fuel = 0 THEN NULL
  ELSE IF ~bs[b].tagged THEN b
  ELSE FirstUntagged(bs, bs[b].next, fuel - 1)

(* No allocated body outside G has a body of G as next *)
Detached(bs, G) ==
  \A n \in Nodes \ G :
    bs[n].type \notin {"none", "freed"} => bs[n].next \notin G

(* C11: after a successful group-alternatives the group's child chain is  *)
(* the previously tagged bodies in order, no body outside the group has a *)
(* grouped body as next, and the group stands in the main chain between   *)
(* the predecessor of the first tagged body and the first untagged body   *)
(* that followed it.                                                      *)
C11_GroupAltsChain ==
  [][(last'.op = "group_alts" /\ last'.rc = "ok" /\ TaggedPos # {}) =>
       LET g == used + 1
           T == TaggedSeq
       IN /\ Chain(bodies', bodies'[g].parts, WalkFuel) = T
          /\ Detached(bodies', Range(T))
          /\ \A m \in Reach : bodies[m].next = T[1] => bodies'[m].next = g
          /\ e_body = T[1] => e_body' = g
          /\ bodies'[g].next = FirstUntagged(bodies, T[1], WalkFuel)]_vars

(* C12: after a successful group-multilingual the group is the last body  *)
(* of the main chain and the last entry of the array, its child chain is  *)
(* the previously tagged bodies in order, no body outside the group has a *)
(* grouped body as next, and the group is reachable from the root.        *)
C12_GroupLingualTail ==
  [][(last'.op = "group_lingual" /\ last'.rc = "ok" /\ TaggedPos # {}) =>
       LET g == used + 1
           T == TaggedSeq
           main == Chain(bodies', e_body', WalkFuel)
       IN /\ Len(idx') > 0 /\ idx'[Len(idx')].body = g
          /\ Len(main) > 0 /\ main[Len(main)] = g
          /\ g \in ReachFrom(bodies', e_body')
          /\ Chain(bodies', bodies'[g].parts, WalkFuel) = T
          /\ Detached(bodies', Range(T))]_vars

(* Number of entries whose body is tagged and has a Content-Language *)
LangTagged ==
  Cardinality({i \in 1..Len(idx) : bodies[idx[i].body].tagged /\ bodies[idx[i].body].language})

(* C13: group-multilingual asks for confirmation only when some tagged    *)
(* part has no Content-Language, and a declined confirmation changes      *)
(* nothing; stated for the calls made while the tagged count agrees with  *)
(* the tagged flags.                                                      *)
C13_LingualConfirmation ==
  [][(last'.op = "group_lingual" /\ last'.rc = "declined" /\ menu.tagged = ActualTagged) =>
       /\ LangTagged # ActualTagged
       /\ bodies' = bodies /\ idx' = idx /\ e_body' = e_body
       /\ menu' = menu /\ used' = used]_vars

(* C14: an append always succeeds: the array grows by one with the new    *)
(* body last, at the depth of the previous last entry; that entry's body  *)
(* gets the new body as next; all earlier entries keep position and       *)
(* depth, and the root is unchanged.                                      *)
C14_Append ==
  [][(last'.op = "attach" /\ Len(idx) > 0) =>
       LET n == Len(idx)
           new == used + 1
       IN /\ last'.rc = "ok"
          /\ Len(idx') = n + 1
          /\ idx'[n + 1].body = new
          /\ idx'[n + 1].level = idx[n].level
          /\ bodies'[idx[n].body].next = new
          /\ Pairs(SubSeq(idx', 1, n)) = Pairs(idx)
          /\ e_body' = e_body]_vars

C14_Witness ==
  /\ last = [op |-> "attach", rc |-> "ok"]
  /\ Len(idx) >= 2
  /\ idx[Len(idx)].level = 1
  /\ bodies[idx[Len(idx) - 1].body].next = idx[Len(idx)].body

(* C15: insert-at(i) of a body of depth d puts its entry at position i,   *)
(* the later entries one position up; the entry before it, if of depth d, *)
(* gets the new body as next; the entry formerly at i, if of depth d,     *)
(* becomes the new body's next; no other link changes.                    *)
C15_InsertAt ==
  [][last'.op = "insert" =>
       LET n == Len(idx)
           new == used + 1
           i == menu'.current
           d == idx'[i + 1].level
           before == IF i > 0 THEN idx[i].body ELSE NULL
           linked == i > 0 /\ idx[i].level = d
       IN /\ Len(idx') = n + 1
          /\ idx'[i + 1].body = new
          /\ Pairs(SubSeq(idx', 1, i)) = Pairs(SubSeq(idx, 1, i))
          /\ Pairs(SubSeq(idx', i + 2, n + 1)) = Pairs(SubSeq(idx, i + 1, n))
          /\ linked => bodies'[before] = [bodies[before] EXCEPT !.next = new]
          /\ bodies'[new].next =
               (IF i < n /\ idx[i + 1].level = d THEN idx[i + 1].body ELSE NULL)
          /\ bodies'[new].parts = NULL
          /\ \A m \in Nodes \ {new} :
               (~linked \/ m # before) => bodies'[m] = bodies[m]]_vars

C15_Witness ==
  /\ last.op = "insert"
  /\ menu.current > 0 /\ menu.current + 1 < Len(idx)
  /\ idx[menu.current].level # idx[menu.current + 1].level
  /\ idx[menu.current + 2].level = idx[menu.current + 1].level
  /\ bodies[idx[menu.current + 1].body].next = idx[menu.current + 2].body

(* Bodies that are allocated and not released *)
Live(bs) == {n \in Nodes : bs[n].type \notin {"none", "freed"}}

(* C16: after a successful delete of entry x of an array longer than 1    *)
(* the array is the old one without entry x, and every body that had the  *)
(* removed body as next now has the removed body's former next.           *)
C16_DeleteCompacts ==
  [][(last'.op = "delete" /\ last'.rc = "ok") =>
       LET n == Len(idx)
           x == menu.current
           gone == idx[x + 1].body
       IN /\ n > 1
          /\ Pairs(idx') = Pairs(SubSeq(idx, 1, x) \o SubSeq(idx, x + 2, n))
          /\ \A m \in Live(bodies) \ {gone} :
               bodies[m].next = gone => bodies'[m].next = bodies[gone].next]_vars

C16_Witness ==
  /\ last = [op |-> "delete", rc |-> "ok"]
  /\ Len(idx) >= 2
  /\ \E g \in Nodes : bodies[g].type = "freed"
  /\ bodies[idx[1].body].next = idx[2].body

(* The same for the deletes of a body that exactly one body names as next *)
DeleteRepointsUnique ==
  [][(last'.op = "delete" /\ last'.rc = "ok") =>
       LET gone == idx[menu.current + 1].body
           P == {m \in Live(bodies) \ {gone} : bodies[m].next = gone}
       IN Cardinality(P) = 1 => \A m \in P : bodies'[m].next = bodies[gone].next]_vars

(* C17: after a successful delete no entry of the array refers to the     *)
(* released body and no body of the tree or of the array has it as next   *)
(* or as parts.                                                           *)
C17_NoReferenceToDeleted ==
  [][(last'.op = "delete" /\ last'.rc = "ok") =>
       LET gone == idx[menu.current + 1].body
           kept == ReachFrom(bodies', e_body') \cup {idx'[i].body : i \in 1..Len(idx')}
       IN /\ gone \notin {idx'[i].body : i \in 1..Len(idx')}
          /\ \A m \in kept \ {gone} :
               bodies'[m].next # gone /\ bodies'[m].parts # gone]_vars

(* C18: when a successful delete removes the first entry of the array,    *)
(* the root afterwards is the body of the new first entry.                *)
C18_RootFollowsFirst ==
  [][(last'.op = "delete" /\ last'.rc = "ok" /\ menu.current = 0) =>
       (Len(idx') > 0 /\ e_body' = idx'[1].body /\ idx'[1] = [idx[2] EXCEPT !.num = 0])]_vars

C18_Witness ==
  /\ last = [op |-> "delete", rc |-> "ok"]
  /\ used = 2
  /\ bodies[1].type = "freed"
  /\ Len(idx) = 1 /\ idx[1].body = 2
  /\ e_body = 2

(* The bodies released by the step *)
Released == {b \in Nodes : bodies'[b].type = "freed" /\ bodies[b].type # "freed"}

(* The bodies the step hands to mutt_body_free() *)
Handed ==
  IF last'.op = "delete" THEN {idx[menu.current + 1].body}
  ELSE {idx[i].body : i \in 1..Len(idx)}

RECURSIVE Visited(_, _, _)
Visited(bs, S, k) ==
  IF k = 0 THEN S
  ELSE Visited(bs,
               (S \cup {bs[n].next : n \in S}
                  \cup {bs[n].parts : n \in {x \in S : bs[x].type = "multipart"
                                                       /\ ~IsEncrypted(bs[x])}})
                 \ {NULL},
               k - 1)

(* The positions of body b in the array *)
EntriesOf(b) == {i \in 1..Len(idx) : idx[i].body = b}

(* C20: flattening takes an encrypted multipart for a leaf: the multipart *)
(* has exactly one entry, none of the bodies below it has an entry, and   *)
(* the siblings that follow it are flattened still: each of them that is  *)
(* a leaf or encrypted has an entry after the multipart's.                *)
C20_EncryptedIsLeaf ==
  (last.op = "init" \/ last = [op |-> "edit_headers", rc |-> "ok"]) =>
    \A m \in Visited(bodies, {e_body}, MaxNodes) :
      (IsEncrypted(bodies[m]) /\ bodies[m].parts # NULL) =>
        /\ Cardinality(EntriesOf(m)) = 1
        /\ \A d \in ReachFrom(bodies, bodies[m].parts) : EntriesOf(d) = {}
        /\ \A sib \in Range(Chain(bodies, bodies[m].next, WalkFuel)) :
             (bodies[sib].type # "multipart" \/ IsEncrypted(bodies[sib])) =>
               \E j \in EntriesOf(sib) : \A i \in EntriesOf(m) : i < j

C20_Witness ==
  /\ last = [op |-> "edit_headers", rc |-> "ok"]
  /\ \E m \in Nodes :
       /\ IsEncrypted(bodies[m]) /\ bodies[m].parts # NULL /\ bodies[m].next # NULL
       /\ EntriesOf(m) # {}
       /\ EntriesOf(bodies[m].next) # {}

(* The step ran check_attachments() *)
Validated ==
  \/ last'.op \in {"send", "postpone"}
  \/ last'.op = "exit" /\ last'.rc \in {"invalid", "postponed"}

(* Array positions (from 1) of the entries that are not multipart, of     *)
(* those whose file is gone and of those whose file is newer than the     *)
(* stamp                                                                  *)
Leaves == {i \in 1..Len(idx) : bodies[idx[i].body].type # "multipart"}

Missing == {i \in Leaves : ~bodies[idx[i].body].exists}

Stale == {i \in Leaves : bodies[idx[i].body].stamp < bodies[idx[i].body].mtime}

(* The scan of the step ended at a question that was answered abort *)
Aborted ==
  /\ last'.rc = "invalid"
  /\ out'.err = 0
  /\ \E j \in out'.prompted \ out'.updated : out'.examined = {i \in Leaves : i <= j}

(* C21: the validation fails as soon as it comes, in array order, to an   *)
(* entry that is not multipart and whose file cannot be stat()ed: the     *)
(* message names that entry's position counted from 1, no later entry is  *)
(* examined, and the session does not end.                                *)
C21_MissingFileFails ==
  [][(Validated /\ Missing # {}) =>
       LET k == Min(Missing)
       IN /\ last'.rc = "invalid"
          /\ \/ /\ out'.err = k
                /\ out'.examined = {i \in Leaves : i <= k}
             \/ /\ Aborted
                /\ \A i \in out'.examined : i < k]_vars

C21_Witness ==
  /\ last = [op |-> "send", rc |-> "invalid"]
  /\ out.err = 1
  /\ Len(idx) = 2
  /\ out.examined = {1}
  /\ ~bodies[idx[2].body].exists

(* C22: the validation succeeds exactly if every entry that is not        *)
(* multipart has its file and no question is answered abort; multipart    *)
(* entries are not looked at; an entry is asked about exactly if its file *)
(* is strictly newer than its stamp; yes updates the encoding of that     *)
(* body only, no changes nothing, and the scan goes on after both.        *)
C22_ValidationScan ==
  [][Validated =>
       /\ ((last'.rc # "invalid") <=> (Missing = {} /\ ~Aborted))
       /\ out'.examined \subseteq Leaves
       /\ out'.prompted = (out'.examined \cap Stale) \ {out'.err}
       /\ out'.updated \subseteq out'.prompted
       /\ (last'.rc # "invalid" => out'.examined = Leaves)
       /\ \A b \in Nodes :
            IF \E i \in out'.updated : idx[i].body = b
            THEN bodies'[b] = [bodies[b] EXCEPT !.info = Info(bodies[b].file),
                                                !.encoding = set_encoding(bodies[b], bodies[b].file),
                                                !.stamp = bodies[b].mtime]
            ELSE bodies'[b] = bodies[b]]_vars

C22_Witness ==
  /\ last.op \in {"send", "postpone"}
  /\ last.rc \in {"sent", "postponed"}
  /\ out.updated # {}
  /\ \E i \in 1..Len(idx) : bodies[idx[i].body].type = "multipart"

(* C23: when a validation ends by an abort, no body's stamp, encoding or  *)
(* classification differs from what it was before the scan, whatever was  *)
(* answered for earlier entries.                                          *)
C23_AbortNoEffect ==
  [][(Validated /\ Aborted) =>
       \A b \in Nodes :
         /\ bodies'[b].stamp = bodies[b].stamp
         /\ bodies'[b].encoding = bodies[b].encoding
         /\ bodies'[b].info = bodies[b].info]_vars

(* C24: the session ends as sent or postponed only by a step whose        *)
(* validation looked at every entry that is not multipart and found       *)
(* nothing missing and no abort; a failed validation leaves the session   *)
(* running with the array and the links of the tree as they were, and a   *)
(* validation right after a failed one succeeds on the same terms.        *)
C24_FinalizeNeedsValidation ==
  [][
     /\ last'.rc \in {"sent", "postponed"} =>
          (/\ Validated
           /\ out'.examined = Leaves /\ Missing = {} /\ out'.err = 0
           /\ out'.prompted = Stale)
     /\ (Validated /\ last'.rc = "invalid") =>
          (/\ Running'
           /\ idx' = idx /\ e_body' = e_body /\ menu' = menu
           /\ Links(bodies') = Links(bodies))
     /\ (last.rc = "invalid" /\ last'.op = "postpone" /\ Missing = {} /\ ~Aborted) =>
          last'.rc = "postponed"
    ]_vars

C24_Witness ==
  /\ last = [op |-> "postpone", rc |-> "invalid"]
  /\ out.err = 0
  /\ out.updated # {}
  /\ Len(idx) = 2

(* C25: when the session ends, as sent, postponed or given up, the root   *)
(* is the body of the first entry of the array, or NULL if the array is   *)
(* empty.                                                                 *)
C25_RootAtEnd ==
  [][last'.rc \in {"sent", "postponed", "end"} =>
       e_body' = (IF Len(idx') > 0 THEN idx'[1].body ELSE NULL)]_vars

C25_Witness ==
  /\ last.rc \in {"sent", "postponed", "end"}
  /\ bodies[1].type = "multipart" /\ bodies[1].parts = 2 /\ ~IsEncrypted(bodies[1])
  /\ e_body = 2
  /\ idx[1].body = 2

(* Sum of f[b] over the bodies b of the entries of ix from position i on *)
RECURSIVE SumOver(_, _, _)
SumOver(f, ix, i) ==
  IF i > Len(ix) THEN 0 ELSE f[ix[i].body] + SumOver(f, ix, i + 1)

(* The bytes in the file as classified *)
Total(b) == b.info.lobin + b.info.hibin + b.info.ascii + b.info.crlf

Base64Size(b) == IF b.info.valid THEN (4 * Total(b) + 2) \div 3 ELSE 0

PlainSize(b) ==
  IF ~b.info.valid THEN 0
  ELSE IF b.encoding = "quoted-printable"
  THEN 3 * (b.info.hibin + b.info.lobin) + b.info.ascii + b.info.crlf
  ELSE Total(b)

(* C26: a body in base64 adds ceil(4/3 * T) to the size shown, T being    *)
(* the bytes of its file: low, high, ascii and crlf together.             *)
C26_Base64Size ==
  (/\ last = [op |-> "redraw", rc |-> "ok"]
   /\ \A i \in 1..Len(idx) : bodies[idx[i].body].encoding = "base64") =>
    out.size = SumOver([b \in Nodes |-> Base64Size(bodies[b])], idx, 1)

(* C27: a quoted-printable body adds 3 * (high + low) + ascii + crlf, a   *)
(* body in any encoding other than quoted-printable and base64 adds low + *)
(* high + ascii + crlf, and a body without classification adds 0.         *)
C27_OtherSizes ==
  (/\ last = [op |-> "redraw", rc |-> "ok"]
   /\ \A i \in 1..Len(idx) : bodies[idx[i].body].encoding # "base64") =>
    out.size = SumOver([b \in Nodes |-> PlainSize(bodies[b])], idx, 1)

C27_Witness ==
  /\ last = [op |-> "redraw", rc |-> "ok"]
  /\ bodies[idx[1].body].encoding = "quoted-printable"
  /\ bodies[idx[1].body].info.hibin > 0
  /\ bodies[idx[1].body].info.ascii > 0
  /\ out.size > 3

(* The bodies of the tree that have no parts *)
TreeLeaves == {b \in Reach : bodies[b].type # "multipart" \/ bodies[b].parts = NULL}

(* What cum_attachs_size() takes for the size of body b *)
EstSize(b) ==
  attach_size(bodies[b], IF bodies[b].info.valid THEN bodies[b].info
                         ELSE mutt_get_content_info(bodies[b]))

RECURSIVE SumSet(_, _)
SumSet(f, S) ==
  IF S = {} THEN 0 ELSE LET x == CHOOSE y \in S : TRUE IN f[x] + SumSet(f, S \ {x})

(* C28: the size shown is the sum of the sizes of the leaves of the tree  *)
(* under the root, each counted once, the children of groups included.    *)
C28_SizeIsSumOfLeaves ==
  last = [op |-> "redraw", rc |-> "ok"] => out.size = SumSet([b \in Nodes |-> EstSize(b)], TreeLeaves)

(* The array position (from 0) of the first entry of the swap of the step *)
SwapFirst == IF last'.op = "move_up" THEN menu.current - 1 ELSE menu.current

(* C29: a swap at position i >= 1 of two entries of depth 0 with bodies A *)
(* (at i) and B (at i + 1), where P is the body with P.next = A, leaves   *)
(* P.next = B, B.next = A and A.next = what B.next was; the array has B   *)
(* at i and A at i + 1; no other link and no other position changes.      *)
C29_SwapRelinks ==
  [][(/\ last'.op \in MoveOps /\ last'.rc = "ok"
      /\ idx[SwapFirst + 1].level = 0 /\ idx[SwapFirst + 2].level = 0) =>
       LET i == SwapFirst
           A == idx[i + 1].body
           B == idx[i + 2].body
       IN \A P \in Live(bodies) :
            bodies[P].next = A =>
              /\ i >= 1
              /\ bodies'[P].next = B
              /\ bodies'[B].next = A
              /\ bodies'[A].next = bodies[B].next
              /\ idx'[i + 1].body = B /\ idx'[i + 2].body = A
              /\ \A n \in Nodes \ {P, A, B} : bodies'[n] = bodies[n]
              /\ \A n \in {P, A, B} : bodies'[n].parts = bodies[n].parts
              /\ \A k \in (1..Len(idx)) \ {i + 1, i + 2} : idx'[k] = idx[k]
              /\ Len(idx') = Len(idx)]_vars

C29_Witness ==
  /\ last = [op |-> "move_down", rc |-> "ok"]
  /\ Len(idx) = 3
  /\ \A k \in 1..3 : idx[k].level = 0
  /\ idx[2].body = 3 /\ idx[3].body = 2
  /\ bodies[1].next = 3 /\ bodies[3].next = 2 /\ bodies[2].next = NULL

(* Two swaps at position first, one after the other *)
SwapTwice(first) ==
  compose_attach_swap(compose_attach_swap(St, first, FALSE).s, first, FALSE).s

(* C30: a swap leaves at each of the two positions the number that was    *)
(* there, with the other entry now under it, and two swaps at the same    *)
(* position give back the array, the numbers and the links.               *)
C30_SwapNumbers ==
  [][/\ (last'.op \in MoveOps /\ last'.rc = "ok") =>
          LET i == SwapFirst
          IN /\ idx'[i + 1].num = idx[i + 1].num /\ idx'[i + 2].num = idx[i + 2].num
             /\ idx'[i + 1].body = idx[i + 2].body /\ idx'[i + 2].body = idx[i + 1].body
     /\ \A first \in 1..(Len(idx) - 2) :
          LET t == SwapTwice(first)
          IN t.idx = idx /\ Links(t.bodies) = Links(bodies)
    ]_vars

C30_Witness ==
  /\ last = [op |-> "move_up", rc |-> "ok"]
  /\ Len(idx) = 3
  /\ idx[2].body = 3 /\ idx[3].body = 2
  /\ idx[2].num = 1 /\ idx[3].num = 2

(* The display-order numbers of the entries, in array order *)
Numbers(ix) == [i \in 1..Len(ix) |-> ix[i].num]

C32_GroupAltsDescription ==
  [][(last'.op = "group_alts" /\ last'.rc = "ok" /\ TaggedPos # {}) =>
       LET first == bodies[TaggedSeq[1]]
       IN bodies'[used + 1].description =
            (IF first.description # NoText THEN AltsTag \o first.description
             ELSE IF first.filename # NoText THEN AltsTag \o first.filename
             ELSE UnknownAlts)]_vars

(* A multipart the flattening goes into: it has parts and is not          *)
(* encrypted                                                              *)
Expanded(b) == b.type = "multipart" /\ b.parts # NULL /\ ~IsEncrypted(b)

(* The bodies of the tree below m in pre-order: a body, then what is      *)
(* below it if it is expanded, then the bodies that follow it             *)
RECURSIVE Preorder(_, _, _)
Preorder(bs, m, fuel) ==
  IF m = NULL \/ fuel = 0 THEN <<>>
  ELSE <<m>> \o (IF Expanded(bs[m]) THEN Preorder(bs, bs[m].parts, fuel - 1) ELSE <<>>)
            \o Preorder(bs, bs[m].next, fuel - 1)

(* The kind of the body that has b among its parts; "none" on the root    *)
(* chain                                                                  *)
ParentKind(b) ==
  LET P == {p \in Nodes : bodies[p].parts # NULL
                          /\ b \in Range(Chain(bodies, bodies[p].parts, WalkFuel))}
  IN IF P = {} THEN "none" ELSE bodies[CHOOSE p \in P : TRUE].type

(* The tree is nested d multiparts deep somewhere *)
RECURSIVE NestedBelow(_, _)
NestedBelow(b, d) ==
  IF d = 0 THEN TRUE
  ELSE \E p \in Nodes :
         /\ Expanded(bodies[p])
         /\ b \in Range(Chain(bodies, bodies[p].parts, WalkFuel))
         /\ NestedBelow(p, d - 1)

C34_RootIsFirstEntry ==
  (Running /\ Len(idx) > 0) => e_body = idx[1].body

(* The bodies that carry the tagged flag *)
TaggedNodes == {b \in Live(bodies) : bodies[b].tagged}

(* C35: the tagged count that the groupings test equals the number of     *)
(* bodies that carry the tagged flag.                                     *)
C35_TaggedCountIsFlags ==
  Running => menu.tagged = Cardinality(TaggedNodes)

(* C36: an array that is not empty never becomes empty: every operation   *)
(* on an array of at least one entry leaves at least one.                 *)
C36_NeverEmpty ==
  [][Len(idx) >= 1 => Len(idx') >= 1]_vars

C36_Witness ==
  /\ last = [op |-> "group_lingual", rc |-> "ok"]
  /\ Len(idx) = 1
  /\ bodies[idx[1].body].type = "multipart"
  /\ bodies[idx[1].body].parts # NULL
  /\ bodies[bodies[idx[1].body].parts].next # NULL

(* C37: after every operation the selection is a position of the array;  *)
(* it is the last position after an append, the position of the new entry *)
(* after an insert and after a group-alternatives, and it goes with the   *)
(* moved entry, one up or one down, after an accepted move.               *)
C37_SelectionValid ==
  [][/\ Len(idx') > 0 => (0 <= menu'.current /\ menu'.current < Len(idx'))
     /\ (last'.op \in {"attach", "group_lingual"} /\ last'.rc = "ok") =>
          menu'.current = Len(idx') - 1
     /\ (last'.op = "insert" \/ (last'.op = "group_alts" /\ last'.rc = "ok")) =>
          idx'[menu'.current + 1].body = used + 1
     /\ (last'.op = "move_up" /\ last'.rc = "ok") =>
          (/\ menu'.current = menu.current - 1
           /\ idx'[menu'.current + 1].body = idx[menu.current + 1].body)
     /\ (last'.op = "move_down" /\ last'.rc = "ok") =>
          (/\ menu'.current = menu.current + 1
           /\ idx'[menu'.current + 1].body = idx[menu.current + 1].body)
    ]_vars

C37_Witness ==
  /\ last = [op |-> "move_down", rc |-> "ok"]
  /\ Len(idx) = 3
  /\ menu.current = 2
  /\ bodies[idx[1].body].type = "multipart"

(* C38: the body of a user-owned entry is never released with its unlink  *)
(* flag set, by a delete or when the session is given up, whatever the    *)
(* flag was toggled to before: the user's file is still there afterwards. *)
C38_UserFileKept ==
  [][((last'.op = "delete" /\ last'.rc = "ok") \/ last'.op = "exit") =>
       \A i \in 1..Len(idx) :
         (idx[i].unowned /\ idx[i].body \in Released) =>
           (/\ bodies[idx[i].body].exists
            /\ bodies'[idx[i].body].exists)]_vars

C38_Witness ==
  /\ last = [op |-> "exit", rc |-> "end"]
  /\ \E i \in 1..Len(idx) :
       /\ idx[i].unowned
       /\ bodies[idx[i].body].type = "freed"
       /\ bodies[idx[i].body].exists
  /\ \E j \in 1..Len(idx) :
       /\ ~idx[j].unowned
       /\ bodies[idx[j].body].type = "freed"
       /\ ~bodies[idx[j].body].exists

----------------------------------------------------------------------------
TypeOK ==
  /\ used \in 0..MaxNodes
  /\ menu.current \in 0..MaxNodes
  /\ Len(idx) <= MaxNodes

NoUB == Running

NoHang == last.rc # "hang"

NoOob == last.rc # "oob"

====
